---- MODULE Spec2Model ----
(***************************************************************************)
(* Registry options manager (Src/Common/RegOptionsMgr.cpp): the IOHandler  *)
(* with its key-handle cache, its asynchronous writer thread and the       *)
(* export/import of unloaded values, and the CRegOptionsMgr operations     *)
(* that drive it.                                                          *)
(*                                                                         *)
(* Strings are sequences of one-character strings, so that SplitName, the  *)
(* value codec and the text codec are computed, not assumed.  A registry   *)
(* key is named by its path below the registry root (m_registryRoot); a    *)
(* backslash separates the keys of a path.                                 *)
(***************************************************************************)
EXTENDS Integers, Sequences, FiniteSets, TLC

\* ------------------------------------------------------------------ bounds

\* Public operations the callers may start in one behaviour.
MaxOps == 4

\* WM_QUIT messages the destructor's loop posts at most.
MaxQuit == 2

\* ------------------------------------------------------------- characters

SLASH == "/"
BSLASH == "\\"
NUL == "NUL"
ESC == "ESC"
LF == "LF"

\* The empty string.
Empty == << >>

\* ------------------------------------------------------------------ names

\* Option names the callers use.  nV has no separator, so its value lives
\* directly under the root key; nABV lives under a nested child key.
nV == <<"v">>
nAV == <<"a", "/", "v">>
nABV == <<"a", "\\", "b", "/", "v">>

\* Names with an empty value part: RemoveOption of a subtree.
nRootTree == <<"/">>
nATree == <<"a", "/">>

OptNames == {nV, nAV, nABV}
TreeNames == {nRootTree, nATree}

\* ------------------------------------------------------------ VariantValue

VNull == [t |-> "VT_NULL", v |-> 0]
VInt(i) == [t |-> "VT_INT", v |-> i]
VBool(b) == [t |-> "VT_BOOL", v |-> b]
VStr(s) == [t |-> "VT_STRING", v |-> s]

\* COptionsMgr::SplitName: the part after the last '/' is the value name, the
\* rest the key path; a name without '/' has an empty path.
LastIndexOf(s, ch) ==
  LET S == {i \in 1..Len(s) : s[i] = ch}
  IN IF S = {} THEN 0 ELSE CHOOSE i \in S : \A j \in S : j <= i

SplitName(name) ==
  LET pos == LastIndexOf(name, SLASH)
  IN IF pos # 0
       THEN <<SubSeq(name, 1, pos - 1), SubSeq(name, pos + 1, Len(name))>>
       ELSE <<Empty, name>>

\* --------------------------------------------------------------- registry

\* The keys above a key path: every prefix that ends before a backslash, and
\* the root.
Ancestors(path) ==
  {SubSeq(path, 1, i - 1) : i \in {j \in 1..Len(path) : path[j] = BSLASH}}
    \cup (IF path = Empty THEN {} ELSE {Empty})

ParentKey(path) == SubSeq(path, 1, LastIndexOf(path, BSLASH) - 1)

SubKeyName(path) == SubSeq(path, LastIndexOf(path, BSLASH) + 1, Len(path))

\* RegEnumKeyEx: the direct child keys of a key.
ChildKeys(store, path) ==
  {k \in DOMAIN store : k # Empty /\ ParentKey(k) = path}

\* The keys below a key, at any depth.
Descendants(store, path) == {k \in DOMAIN store : path \in Ancestors(k)}

NoValues == [x \in {} |-> 0]

\* RegCreateKeyEx on a path: the key and the missing keys above it exist
\* afterwards; existing keys keep their values.
RegCreateKey(store, path) ==
  [k \in DOMAIN store \cup {path} \cup Ancestors(path) |->
     IF k \in DOMAIN store THEN store[k] ELSE NoValues]

\* RegSetValueEx.
RegSetValue(store, path, valueName, rv) ==
  [store EXCEPT ![path] =
     [x \in DOMAIN store[path] \cup {valueName} |->
        IF x = valueName THEN rv ELSE store[path][x]]]

\* RegDeleteValue.
RegDeleteValueOf(store, path, valueName) ==
  [store EXCEPT ![path] =
     [x \in DOMAIN store[path] \ {valueName} |-> store[path][x]]]

\* RegDeleteTree(hKey, nullptr), and SHDeleteKey(hKey, nullptr) of the 32-bit
\* build: the subkeys and the values of the key are deleted, the key itself
\* stays.
RegDeleteTreeOf(store, path) ==
  [k \in DOMAIN store \ Descendants(store, path) |->
     IF k = path THEN NoValues ELSE store[k]]

\* ------------------------------------------------------------ value codec

\* A DWORD is its four bytes, least significant first.
BytesOf(u) ==
  <<u % 256, (u \div 256) % 256, (u \div 65536) % 256, u \div 16777216>>

\* DWORD dwordVal = value.GetInt(): the two's complement word of a 32-bit int.
DwordOfInt(i) ==
  IF i >= 0
    THEN BytesOf(i)
    ELSE [BytesOf(i + 2147483647 + 1) EXCEPT ![4] = @ + 128]

\* value.SetInt(dwordValue): the 32-bit int of a word.
IntOfDword(b) ==
  IF b[4] < 128
    THEN b[1] + 256 * b[2] + 65536 * b[3] + 16777216 * b[4]
    ELSE (b[1] + 256 * b[2] + 65536 * b[3] + 16777216 * (b[4] - 128))
           - 2147483647 - 1

\* A word taken for true only when it is 1.
DwordIsOne(b) == b = <<1, 0, 0, 0>>

\* dwordValue > 0.
DwordNonZero(b) == \E i \in 1..4 : b[i] # 0

\* The characters of a buffer up to its first terminator ((tchar_t *)&data[0]).
RECURSIVE CStr(_)
CStr(data) ==
  IF data = Empty \/ Head(data) = NUL
    THEN Empty
    ELSE <<Head(data)>> \o CStr(Tail(data))

\* SaveValueToReg, the value it hands to RegSetValueEx: a string with its
\* terminator (an empty string is one terminator), an int or a bool as a
\* DWORD.  A value of another type is not written.
EncodeValue(value) ==
  IF value.t = "VT_STRING"
    THEN IF Len(value.v) > 0
           THEN [type |-> "REG_SZ", data |-> value.v \o <<NUL>>]
           ELSE [type |-> "REG_SZ", data |-> <<NUL>>]
    ELSE IF value.t = "VT_INT"
      THEN [type |-> "REG_DWORD", data |-> DwordOfInt(value.v)]
      ELSE [type |-> "REG_DWORD",
            data |-> DwordOfInt(IF value.v = TRUE THEN 1 ELSE 0)]

CanEncode(value) == value.t \in {"VT_STRING", "VT_INT", "VT_BOOL"}

\* CRegOptionsMgr::LoadValueFromBuf, its decoding: the value for a buffer of
\* store type `type`, as the type of `value` expects it; VNull stands for
\* OPT_WRONG_TYPE.
DecodeBuf(type, data, value) ==
  IF type = "REG_SZ" /\ value.t = "VT_STRING"
    THEN VStr(CStr(data))
    ELSE IF type = "REG_DWORD"
      THEN IF value.t = "VT_INT"
             THEN VInt(IntOfDword(data))
             ELSE IF value.t = "VT_BOOL"
               THEN VBool(DwordNonZero(data))
               ELSE VNull
      ELSE VNull

\* ------------------------------------------------------------- text codec

DigitChars == <<"0", "1", "2", "3", "4", "5", "6", "7", "8", "9">>

RECURSIVE Digits(_)
Digits(n) ==
  IF n < 10
    THEN <<DigitChars[n + 1]>>
    ELSE Digits(n \div 10) \o <<DigitChars[(n % 10) + 1]>>

\* strutils::to_str(int): decimal text.
ToStr(i) == IF i < 0 THEN <<"-">> \o Digits(0 - i) ELSE Digits(i)

HexChars == <<"0", "1", "2", "3", "4", "5", "6", "7", "8", "9",
              "a", "b", "c", "d", "e", "f">>

DigitValue(ch, base) ==
  LET S == {d \in 1..base : HexChars[d] = ch}
  IN IF S = {} THEN -1 ELSE (CHOOSE d \in S : TRUE) - 1

RECURSIVE ParseDigits(_, _, _)
ParseDigits(s, base, acc) ==
  IF s = Empty \/ DigitValue(Head(s), base) < 0
    THEN acc
    ELSE ParseDigits(Tail(s), base, acc * base + DigitValue(Head(s), base))

\* tcstoll(text, &endptr, base): an optional sign, for base 16 an optional
\* 0x, then the digits up to the first character that is none.
Strtoll(s, base) ==
  LET neg == s # Empty /\ Head(s) = "-"
      s1 == IF s # Empty /\ Head(s) \in {"-", "+"} THEN Tail(s) ELSE s
      s2 == IF base = 16 /\ Len(s1) >= 2 /\ s1[1] = "0" /\ s1[2] = "x"
              THEN SubSeq(s1, 3, Len(s1))
              ELSE s1
      mag == ParseDigits(s2, base, 0)
  IN IF neg THEN 0 - mag ELSE mag

\* ImportAllUnloadedValues, its int branch: base 16 when the second character
\* is 'x', the result cast to unsigned and back to int (the same int for a
\* text that to_str wrote).
ParseIntText(strValue) ==
  Strtoll(strValue,
          IF Len(strValue) >= 2 /\ strValue[2] = "x" THEN 16 ELSE 10)

\* COptionsMgr::EscapeValue and its inverse in ReadIniFile: a record
\* character of the file never appears unescaped in a value.
EscapedChars == {ESC, LF}

RECURSIVE EscapeValue(_)
EscapeValue(s) ==
  IF s = Empty
    THEN Empty
    ELSE (IF Head(s) \in EscapedChars
            THEN <<ESC, IF Head(s) = LF THEN "J" ELSE "[">>
            ELSE <<Head(s)>>) \o EscapeValue(Tail(s))

RECURSIVE UnescapeValue(_)
UnescapeValue(s) ==
  IF s = Empty
    THEN Empty
    ELSE IF Head(s) = ESC /\ Len(s) >= 2
      THEN <<IF s[2] = "J" THEN LF ELSE ESC>> \o UnescapeValue(SubSeq(s, 3, Len(s)))
      ELSE <<Head(s)>> \o UnescapeValue(Tail(s))

\* ------------------------------------------------------------------ state

Callers == {"c1", "c2"}

VARIABLES
  reg,             \* the registry below the root: key path -> (value name -> [type, data])
  ini,             \* the flat file: [vals, types], each name -> text
  m_optionsMap,    \* option name -> value (the option table)
  m_hKeys,         \* the handle cache: key path -> handle
  hOpen,           \* the handles OpenKey has opened and nobody has closed
  hDeleted,        \* those of them whose key has been deleted since
  m_cs,            \* the critical section's owner, or "none"
  m_dwQueueCount,  \* writes counted and not yet applied or dropped
  queue,           \* the writer thread's message queue
  wk,              \* the writer thread: [pc, msg, hKey]
  life,            \* the IOHandler: "up", "dying" (in its destructor), "gone"
  pc,              \* each caller's position
  arg,             \* each caller's locals in the operation it is in
  ret,             \* each caller's last completed operation and its result
  script,          \* each caller's operations still to call, when in a scenario
  scn,             \* each caller's scenario and the results of its operations
  nOps,            \* operations and scenarios started
  nextId,          \* the number of the next WriteAsync call
  completed,       \* WriteAsync calls that have returned: [id, name, by]
  applyLog,        \* the write numbers in the order the writer applied them
  dropped,         \* the write numbers whose post failed
  exported         \* what the last export read: name -> [type, data]

vars == <<reg, ini, m_optionsMap, m_hKeys, hOpen, hDeleted, m_cs, m_dwQueueCount,
          queue, wk, life, pc, arg, ret, script, scn, nOps, nextId, completed,
          applyLog, dropped, exported>>

Range(f) == {f[x] : x \in DOMAIN f}

Applied == Range(applyLog)

NoMap == [x \in {} |-> 0]

\* f with x mapped to y.
Put(f, x, y) == [z \in DOMAIN f \cup {x} |-> IF z = x THEN y ELSE f[z]]

\* f without the keys in S.
Drop(f, S) == [z \in DOMAIN f \ S |-> f[z]]

\* ------------------------------------------------------------ handle cache

NullH == << >>

\* A handle none of the open ones equals.
FreshHandle(strPath, open) ==
  <<strPath,
    CHOOSE n \in 1..(Cardinality(open) + 1) :
      /\ <<strPath, n>> \notin open
      /\ \A m \in 1..(n - 1) : <<strPath, m>> \in open>>

\* OpenKey, line 73: the path has no entry in m_hKeys.
CacheMiss(strPath, hKeys) == strPath \notin DOMAIN hKeys

\* OpenKey, lines 75-91: the underlying RegCreateKeyEx or RegOpenKeyEx, and
\* the new handle's entry in m_hKeys; nullptr and no entry when it fails.
OpenUncached(strPath, bAlwaysCreate, store, hKeys, open) ==
  IF bAlwaysCreate \/ strPath \in DOMAIN store
    THEN LET h == FreshHandle(strPath, open)
         IN [hKey |-> h,
             store |-> IF bAlwaysCreate THEN RegCreateKey(store, strPath) ELSE store,
             hKeys |-> Put(hKeys, strPath, h),
             open |-> open \cup {h}]
    ELSE [hKey |-> NullH, store |-> store, hKeys |-> hKeys, open |-> open]

\* IOHandler::OpenKey.
OpenKey(strPath, bAlwaysCreate, store, hKeys, open) ==
  IF CacheMiss(strPath, hKeys)
    THEN OpenUncached(strPath, bAlwaysCreate, store, hKeys, open)
    ELSE [hKey |-> hKeys[strPath], store |-> store, hKeys |-> hKeys, open |-> open]

\* IOHandler::CloseKey: m_bCloseHandle is false from construction on and
\* nothing sets it, so the handle stays open and cached.
m_bCloseHandle == FALSE

CloseKey(hKey, strPath, hKeys, open) ==
  IF m_bCloseHandle
    THEN [hKeys |-> Drop(hKeys, {strPath}), open |-> open \ {hKey}]
    ELSE [hKeys |-> hKeys, open |-> open]

\* A handle the registry still serves: not nullptr, its key not deleted.
HandleOk(hKey, deleted) == hKey # NullH /\ hKey \notin deleted

\* IOHandler::SaveValueToReg.
SaveValueToReg(hKey, strValueName, value, store, deleted) ==
  IF CanEncode(value)
    THEN IF HandleOk(hKey, deleted)
           THEN [store |-> RegSetValue(store, hKey[1], strValueName, EncodeValue(value)),
                 retVal |-> "OPT_OK"]
           ELSE [store |-> store, retVal |-> "OPT_ERR"]
    ELSE [store |-> store, retVal |-> "OPT_UNKNOWN_TYPE"]

\* RegQueryValueEx through a handle (with the retry on ERROR_MORE_DATA done).
RegQueryValue(hKey, strValueName, store, deleted) ==
  IF hKey = NullH
    THEN [retValReg |-> "ERROR_FILE_NOT_FOUND", type |-> "REG_NONE", data |-> Empty]
    ELSE IF hKey \in deleted
      THEN [retValReg |-> "ERROR_KEY_DELETED", type |-> "REG_NONE", data |-> Empty]
      ELSE IF strValueName \in DOMAIN store[hKey[1]]
        THEN [retValReg |-> "ERROR_SUCCESS",
              type |-> store[hKey[1]][strValueName].type,
              data |-> store[hKey[1]][strValueName].data]
        ELSE [retValReg |-> "ERROR_FILE_NOT_FOUND", type |-> "REG_NONE", data |-> Empty]

\* The open handles of the keys a RegDeleteTree removes.
HandlesBelow(store, path, open) ==
  {h \in open : h[1] \in Descendants(store, path)}

\* ------------------------------------------------------------ option table

\* COptionsMgr::AddOption: the option is in the table with the default value.
AddOption(map, name, defaultValue) == Put(map, name, defaultValue)

\* COptionsMgr::Set, its result: the option must exist and keep its type.
SetResult(map, name, value) ==
  IF name \notin DOMAIN map
    THEN "OPT_NOTFOUND"
    ELSE IF map[name].t # value.t THEN "OPT_WRONG_TYPE" ELSE "OPT_OK"

\* COptionsMgr::Set, its effect.
SetOption(map, name, value) ==
  IF SetResult(map, name, value) = "OPT_OK" THEN Put(map, name, value) ELSE map

\* COptionsMgr::Get: the value, Null for an unknown name.
GetOption(map, name) == IF name \in DOMAIN map THEN map[name] ELSE VNull

\* CRegOptionsMgr::RemoveOption, lines 681-688: the names a subtree removal
\* takes out of the table are those that continue strPath with a '/'.
UnderPath(key, strPath) ==
  /\ Len(key) > Len(strPath)
  /\ SubSeq(key, 1, Len(strPath)) = strPath
  /\ key[Len(strPath) + 1] = SLASH

\* CRegOptionsMgr::RemoveOption, the table after it.
RemoveFromTable(map, name) ==
  IF SplitName(name)[2] # Empty
    THEN Drop(map, {name})
    ELSE Drop(map, {key \in DOMAIN map : UnderPath(key, SplitName(name)[1])})

\* ----------------------------------------------------- callers' bookkeeping

NoArg == [name |-> Empty, value |-> VNull, id |-> 0, snap |-> {}, todo |-> << >>,
          vals |-> NoMap, types |-> NoMap, hKey |-> NullH, miss |-> FALSE,
          log |-> << >>, quits |-> 0, pend |-> {}]

NoRet == [op |-> "none", name |-> Empty, value |-> VNull, rc |-> "none",
          read |-> "none", dec |-> VNull, got |-> VNull, snap |-> {},
          log |-> << >>, file |-> NoMap, map |-> NoMap]

NoScn == [kind |-> "none", name |-> Empty, active |-> FALSE, clean |-> TRUE,
          out |-> << >>]

NoMsg == [message |-> "none", name |-> Empty, value |-> VNull, id |-> 0]

Op(op, name, value) == [op |-> op, name |-> name, value |-> value]

\* The operations caller c may call now: the next one of its scenario, or any
\* of the menu while the budget lasts.
Candidates(c, menu) ==
  IF pc[c] # "idle" \/ life # "up"
    THEN {}
    ELSE IF script[c] # << >>
      THEN {Head(script[c])}
      ELSE IF nOps < MaxOps THEN menu ELSE {}

\* An operation of another caller that touches what a scenario on `name` observes.
Disturbs(o, name) ==
  \/ o.op \in {"RemoveOption", "ImportOptions"}
  \/ o.op \in {"SaveOption", "InitOption"} /\ o.name = name

\* The scenarios after caller c has called o: a scenario is no longer
\* undisturbed when o touches what it observes and is not one of its own
\* operations.
Disturbed(c, o) ==
  [d \in Callers |->
     IF /\ scn[d].kind # "none"
        /\ d = c => ~scn[d].active
        /\ Disturbs(o, scn[d].name)
       THEN [scn[d] EXCEPT !.clean = FALSE]
       ELSE scn[d]]

\* What is left of caller c's scenario once it has called its next operation.
Rest(c) == IF script[c] # << >> THEN Tail(script[c]) ELSE << >>

\* Caller c calls an operation.
Called(c) ==
  /\ nOps' = IF script[c] # << >> THEN nOps ELSE nOps + 1
  /\ script' = [script EXCEPT ![c] = Rest(c)]

\* Caller c's operation returns with result r.
Returned(c, r) ==
  /\ pc' = [pc EXCEPT ![c] = "idle"]
  /\ arg' = [arg EXCEPT ![c] = NoArg]
  /\ ret' = [ret EXCEPT ![c] = r]

\* Caller c's scenario with result r noted, `rest` being what is left of it.
Noted(sc, r, rest) ==
  IF sc.active
    THEN [sc EXCEPT !.out = Append(@, r), !.active = (rest # << >>)]
    ELSE sc

\* ------------------------------------------------------------- WriteAsync

m_serializing == TRUE

\* PostThreadMessage reaches a thread that has not ended.
PostOk == wk.pc # "exited"

\* CRegOptionsMgr::SaveOption(name, value) up to WriteAsync's increment: Set,
\* Get, and with a value to save the count goes up before the post.
SaveOption(c, o) ==
  /\ o.op = "SaveOption"
  /\ Called(c)
  /\ LET rc == SetResult(m_optionsMap, o.name, o.value)
         map == SetOption(m_optionsMap, o.name, o.value)
         value == GetOption(map, o.name)
         rc2 == IF rc # "OPT_OK" THEN rc
                ELSE IF ~m_serializing THEN "OPT_OK"
                ELSE IF value.t = "VT_NULL" THEN "OPT_NOTFOUND" ELSE "OPT_OK"
     IN /\ m_optionsMap' = map
        /\ IF rc = "OPT_OK" /\ m_serializing /\ rc2 = "OPT_OK"
             THEN /\ m_dwQueueCount' = m_dwQueueCount + 1
                  /\ nextId' = nextId + 1
                  /\ pc' = [pc EXCEPT ![c] = "Post"]
                  /\ arg' = [arg EXCEPT ![c] =
                               [NoArg EXCEPT !.name = o.name, !.value = value,
                                             !.id = nextId]]
                  /\ scn' = Disturbed(c, o)
                  /\ UNCHANGED ret
             ELSE /\ Returned(c, [NoRet EXCEPT !.op = "SaveOption", !.name = o.name,
                                               !.value = o.value, !.rc = rc2])
                  /\ scn' = [Disturbed(c, o) EXCEPT ![c] =
                               Noted(@, [NoRet EXCEPT !.op = "SaveOption",
                                                      !.name = o.name,
                                                      !.value = o.value,
                                                      !.rc = rc2], Rest(c))]
                  /\ UNCHANGED <<m_dwQueueCount, nextId>>
  /\ UNCHANGED <<reg, ini, m_hKeys, hOpen, hDeleted, m_cs, queue, wk, life,
                 completed, applyLog, dropped, exported>>

\* CRegOptionsMgr::SaveOption(name), lines 594-610, up to WriteAsync's
\* increment: the value is taken from the table; Null, the value of an
\* unknown name, is answered with OPT_NOTFOUND and nothing is posted.
SaveOptionByName(c, o) ==
  /\ o.op = "SaveOptionByName"
  /\ Called(c)
  /\ LET value == GetOption(m_optionsMap, o.name)
         rc == IF ~m_serializing THEN "OPT_OK"
               ELSE IF value.t = "VT_NULL" THEN "OPT_NOTFOUND" ELSE "OPT_OK"
         r == [NoRet EXCEPT !.op = "SaveOptionByName", !.name = o.name,
                            !.value = value, !.rc = rc]
     IN IF m_serializing /\ rc = "OPT_OK"
          THEN /\ m_dwQueueCount' = m_dwQueueCount + 1
               /\ nextId' = nextId + 1
               /\ pc' = [pc EXCEPT ![c] = "Post"]
               /\ arg' = [arg EXCEPT ![c] =
                            [NoArg EXCEPT !.name = o.name, !.value = value,
                                          !.id = nextId]]
               /\ scn' = Disturbed(c, o)
               /\ UNCHANGED ret
          ELSE /\ Returned(c, r)
               /\ scn' = [Disturbed(c, o) EXCEPT ![c] = Noted(@, r, Rest(c))]
               /\ UNCHANGED <<m_dwQueueCount, nextId>>
  /\ UNCHANGED <<reg, ini, m_optionsMap, m_hKeys, hOpen, hDeleted, m_cs, queue, wk,
                 life, completed, applyLog, dropped, exported>>

\* A post that leaves the count up when it failed.
CountAfterPostKept(bPosted, count) == count

\* A post that takes the count down also when it went through.
CountAfterPostDown(bPosted, count) == count - 1

\* WriteAsync, lines 61-64: the count after the post, taken back when the
\* post failed.
CountAfterPost(bPosted, count) == IF bPosted THEN count ELSE count - 1

\* WriteAsync, lines 61-65: the post, and the count taken back when it fails.
Post(c) ==
  /\ pc[c] = "Post"
  /\ IF PostOk
       THEN /\ queue' = Append(queue, [message |-> "WM_USER", name |-> arg[c].name,
                                       value |-> arg[c].value, id |-> arg[c].id])
            /\ UNCHANGED dropped
       ELSE /\ dropped' = dropped \cup {arg[c].id}
            /\ UNCHANGED queue
  /\ m_dwQueueCount' = CountAfterPost(PostOk, m_dwQueueCount)
  /\ completed' = completed \cup {[id |-> arg[c].id, name |-> arg[c].name, by |-> c]}
  /\ LET r == [NoRet EXCEPT !.op = "SaveOption", !.name = arg[c].name,
                            !.value = arg[c].value, !.rc = "OPT_OK",
                            !.snap = {arg[c].id}]
     IN /\ Returned(c, r)
        /\ scn' = [scn EXCEPT ![c] = Noted(@, r, script[c])]
  /\ UNCHANGED <<reg, ini, m_optionsMap, m_hKeys, hOpen, hDeleted, m_cs, wk, life,
                 script, nOps, nextId, applyLog, exported>>

\* ------------------------------------------------------ WaitForQueueFlush

\* A wait that never waits: the loop is left at once.
QueueDrainedNoWait == TRUE

\* Lines 249 and 226: the loop ends when m_dwQueueCount is read as zero.
QueueDrained == m_dwQueueCount = 0

\* CRegOptionsMgr::FlushOptions is called; `snap` are the writes whose
\* WriteAsync had returned by then.
FlushOptions(c, o) ==
  /\ o.op = "FlushOptions"
  /\ Called(c)
  /\ pc' = [pc EXCEPT ![c] = "Flush"]
  /\ arg' = [arg EXCEPT ![c] = [NoArg EXCEPT !.snap = {r.id : r \in completed}]]
  /\ scn' = Disturbed(c, o)
  /\ UNCHANGED <<reg, ini, m_optionsMap, m_hKeys, hOpen, hDeleted, m_cs,
                 m_dwQueueCount, queue, wk, life, ret, nextId, completed, applyLog,
                 dropped, exported>>

\* WaitForQueueFlush returns.
FlushReturn(c) ==
  /\ pc[c] = "Flush"
  /\ QueueDrained
  /\ LET r == [NoRet EXCEPT !.op = "FlushOptions", !.rc = "OPT_OK",
                            !.snap = arg[c].snap]
     IN /\ Returned(c, r)
        /\ scn' = [scn EXCEPT ![c] = Noted(@, r, script[c])]
  /\ UNCHANGED <<reg, ini, m_optionsMap, m_hKeys, hOpen, hDeleted, m_cs,
                 m_dwQueueCount, queue, wk, life, script, nOps, nextId, completed,
                 applyLog, dropped, exported>>

\* -------------------------------------------------------------- InitOption

\* CRegOptionsMgr::InitOption up to the call of Read: a Null default is
\* refused, any other is added to the table.
InitOption(c, o) ==
  /\ o.op = "InitOption"
  /\ Called(c)
  /\ IF o.value.t = "VT_NULL"
       THEN LET r == [NoRet EXCEPT !.op = "InitOption", !.name = o.name,
                                   !.value = o.value, !.rc = "OPT_ERR",
                                   !.got = GetOption(m_optionsMap, o.name)]
            IN /\ Returned(c, r)
               /\ scn' = [Disturbed(c, o) EXCEPT ![c] = Noted(@, r, Rest(c))]
               /\ UNCHANGED m_optionsMap
       ELSE /\ m_optionsMap' = AddOption(m_optionsMap, o.name, o.value)
            /\ pc' = [pc EXCEPT ![c] = "Read"]
            /\ arg' = [arg EXCEPT ![c] =
                         [NoArg EXCEPT !.name = o.name, !.value = o.value]]
            /\ scn' = Disturbed(c, o)
            /\ UNCHANGED ret
  /\ UNCHANGED <<reg, ini, m_hKeys, hOpen, hDeleted, m_cs, m_dwQueueCount, queue,
                 wk, life, nextId, completed, applyLog, dropped, exported>>

\* CRegOptionsMgr::LoadValueFromBuf: [retVal, map].
LoadValueFromBuf(map, strName, type, data, value) ==
  LET dec == DecodeBuf(type, data, value)
  IN IF dec = VNull
       THEN [retVal |-> "OPT_WRONG_TYPE", map |-> map]
       ELSE [retVal |-> SetResult(map, strName, dec),
             map |-> SetOption(map, strName, dec)]

\* IOHandler::Read under the critical section, and the rest of InitOption:
\* the value read is loaded into the table when the read succeeded.
Read(c) ==
  /\ pc[c] = "Read"
  /\ m_cs = "none"
  /\ LET sp == SplitName(arg[c].name)
         ok == OpenKey(sp[1], FALSE, reg, m_hKeys, hOpen)
         q == RegQueryValue(ok.hKey, sp[2], ok.store, hDeleted)
         cl == CloseKey(ok.hKey, sp[1], ok.hKeys, ok.open)
         ld == IF q.retValReg = "ERROR_SUCCESS"
                 THEN LoadValueFromBuf(m_optionsMap, arg[c].name, q.type, q.data,
                                       arg[c].value)
                 ELSE [retVal |-> "OPT_OK", map |-> m_optionsMap]
         r == [NoRet EXCEPT !.op = "InitOption", !.name = arg[c].name,
                            !.value = arg[c].value, !.rc = ld.retVal,
                            !.read = q.retValReg,
                            !.dec = IF q.retValReg = "ERROR_SUCCESS"
                                      THEN DecodeBuf(q.type, q.data, arg[c].value)
                                      ELSE VNull,
                            !.got = GetOption(ld.map, arg[c].name)]
     IN /\ reg' = ok.store
        /\ m_hKeys' = cl.hKeys
        /\ hOpen' = cl.open
        /\ m_optionsMap' = ld.map
        /\ Returned(c, r)
        /\ scn' = [scn EXCEPT ![c] = Noted(@, r, script[c])]
  /\ UNCHANGED <<ini, hDeleted, m_cs, m_dwQueueCount, queue, wk, life, script,
                 nOps, nextId, completed, applyLog, dropped, exported>>

\* ------------------------------------------------------------ RemoveOption

\* CRegOptionsMgr::RemoveOption up to the wait in IOHandler::Remove: the
\* option, or the options of the subtree, leave the table.
RemoveOption(c, o) ==
  /\ o.op = "RemoveOption"
  /\ Called(c)
  /\ m_optionsMap' = RemoveFromTable(m_optionsMap, o.name)
  /\ pc' = [pc EXCEPT ![c] = "RemoveWait"]
  /\ arg' = [arg EXCEPT ![c] =
               [NoArg EXCEPT !.name = o.name,
                             !.snap = {r.id : r \in {x \in completed : x.name = o.name}}]]
  /\ scn' = Disturbed(c, o)
  /\ UNCHANGED <<reg, ini, m_hKeys, hOpen, hDeleted, m_cs, m_dwQueueCount, queue,
                 wk, life, ret, nextId, completed, applyLog, dropped, exported>>

\* IOHandler::Remove, lines 226-227: the wait for the queue is over.
RemoveWait(c) ==
  /\ pc[c] = "RemoveWait"
  /\ QueueDrained
  /\ pc' = [pc EXCEPT ![c] = "RemoveEnter"]
  /\ UNCHANGED <<reg, ini, m_optionsMap, m_hKeys, hOpen, hDeleted, m_cs,
                 m_dwQueueCount, queue, wk, life, arg, ret, script, scn, nOps,
                 nextId, completed, applyLog, dropped, exported>>

\* IOHandler::Remove, lines 230-238, the registry after the delete: the tree
\* below the key for an empty value name, else the value.
RemoveFromReg(hKey, strValueName, store, deleted) ==
  IF HandleOk(hKey, deleted)
    THEN IF strValueName = Empty
           THEN RegDeleteTreeOf(store, hKey[1])
           ELSE RegDeleteValueOf(store, hKey[1], strValueName)
    ELSE store

\* IOHandler::Remove, lines 233-238: what RegDeleteTree, SHDeleteKey or
\* RegDeleteValue returns, which the code does not look at.
RegDeleteStatus(hKey, strValueName, store, deleted) ==
  IF hKey = NullH
    THEN "ERROR_INVALID_HANDLE"
    ELSE IF hKey \in deleted
      THEN "ERROR_KEY_DELETED"
      ELSE IF strValueName = Empty \/ strValueName \in DOMAIN store[hKey[1]]
        THEN "ERROR_SUCCESS"
        ELSE "ERROR_FILE_NOT_FOUND"

\* IOHandler::Remove, lines 229-240: under the critical section the key is
\* opened (created when missing) and the value or the tree deleted.
Remove(c) ==
  /\ pc[c] = "RemoveEnter"
  /\ m_cs = "none"
  /\ LET sp == SplitName(arg[c].name)
         ok == OpenKey(sp[1], TRUE, reg, m_hKeys, hOpen)
         cl == CloseKey(ok.hKey, sp[1], ok.hKeys, ok.open)
         gone == IF sp[2] = Empty /\ HandleOk(ok.hKey, hDeleted)
                   THEN HandlesBelow(ok.store, sp[1], ok.open)
                   ELSE {}
         r == [NoRet EXCEPT !.op = "RemoveOption", !.name = arg[c].name,
                            !.rc = "OPT_OK", !.snap = arg[c].snap,
                            !.read = RegDeleteStatus(ok.hKey, sp[2], ok.store,
                                                     hDeleted)]
     IN /\ reg' = RemoveFromReg(ok.hKey, sp[2], ok.store, hDeleted)
        /\ m_hKeys' = cl.hKeys
        /\ hOpen' = cl.open
        /\ hDeleted' = hDeleted \cup gone
        /\ Returned(c, r)
        /\ scn' = [scn EXCEPT ![c] = Noted(@, r, script[c])]
  /\ UNCHANGED <<ini, m_optionsMap, m_cs, m_dwQueueCount, queue, wk, life, script,
                 nOps, nextId, completed, applyLog, dropped, exported>>

\* --------------------------------------------------------------- CloseKeys

\* IOHandler::CloseKeys: under the critical section every cached handle is
\* closed and the cache cleared.
CloseKeys(c, o) ==
  /\ o.op = "CloseKeys"
  /\ m_cs = "none"
  /\ Called(c)
  /\ m_hKeys' = NoMap
  /\ hOpen' = hOpen \ Range(m_hKeys)
  /\ hDeleted' = hDeleted \ Range(m_hKeys)
  /\ LET r == [NoRet EXCEPT !.op = "CloseKeys", !.rc = "OPT_OK"]
     IN /\ Returned(c, r)
        /\ scn' = [Disturbed(c, o) EXCEPT ![c] = Noted(@, r, Rest(c))]
  /\ UNCHANGED <<reg, ini, m_optionsMap, m_cs, m_dwQueueCount, queue, wk, life,
                 nextId, completed, applyLog, dropped, exported>>

\* ----------------------------------------------------- AsyncWriterThreadProc

\* GetMessage takes the next message; WM_QUIT ends the loop and the thread.
WriterGet ==
  /\ wk.pc = "wait"
  /\ queue # << >>
  /\ queue' = Tail(queue)
  /\ wk' = IF Head(queue).message = "WM_QUIT"
             THEN [pc |-> "exited", msg |-> NoMsg, hKey |-> NullH]
             ELSE [pc |-> "got", msg |-> Head(queue), hKey |-> NullH]
  /\ UNCHANGED <<reg, ini, m_optionsMap, m_hKeys, hOpen, hDeleted, m_cs,
                 m_dwQueueCount, life, pc, arg, ret, script, scn, nOps, nextId,
                 completed, applyLog, dropped, exported>>

\* Lines 438-440: the critical section is entered and the key opened.
WriterEnter ==
  /\ wk.pc = "got"
  /\ m_cs = "none"
  /\ LET ok == OpenKey(SplitName(wk.msg.name)[1], TRUE, reg, m_hKeys, hOpen)
     IN /\ reg' = ok.store
        /\ m_hKeys' = ok.hKeys
        /\ hOpen' = ok.open
        /\ wk' = [wk EXCEPT !.pc = "locked", !.hKey = ok.hKey]
  /\ m_cs' = "writer"
  /\ UNCHANGED <<ini, m_optionsMap, hDeleted, m_dwQueueCount, queue, life, pc, arg,
                 ret, script, scn, nOps, nextId, completed, applyLog, dropped,
                 exported>>

\* Lines 441-443: the value is saved and the critical section left.
WriterSave ==
  /\ wk.pc = "locked"
  /\ LET sp == SplitName(wk.msg.name)
         sv == SaveValueToReg(wk.hKey, sp[2], wk.msg.value, reg, hDeleted)
         cl == CloseKey(wk.hKey, sp[1], m_hKeys, hOpen)
     IN /\ reg' = sv.store
        /\ m_hKeys' = cl.hKeys
        /\ hOpen' = cl.open
  /\ applyLog' = Append(applyLog, wk.msg.id)
  /\ wk' = [wk EXCEPT !.pc = "saved"]
  /\ m_cs' = "none"
  /\ UNCHANGED <<ini, m_optionsMap, hDeleted, m_dwQueueCount, queue, life, pc, arg,
                 ret, script, scn, nOps, nextId, completed, dropped, exported>>

\* A writer that leaves the count as it is.
CountAfterApplyKept(count) == count

\* InterlockedDecrement, line 445.
CountAfterApply(count) == count - 1

\* Lines 444-445: the parameter is freed and the count taken down.
WriterDone ==
  /\ wk.pc = "saved"
  /\ m_dwQueueCount' = CountAfterApply(m_dwQueueCount)
  /\ wk' = [pc |-> "wait", msg |-> NoMsg, hKey |-> NullH]
  /\ UNCHANGED <<reg, ini, m_optionsMap, m_hKeys, hOpen, hDeleted, m_cs, queue,
                 life, pc, arg, ret, script, scn, nOps, nextId, completed, applyLog,
                 dropped, exported>>

\* ------------------------------------------------------------------ export

\* A file without entries: the values section, the type-tag section and, for
\* the entries an export wrote, the store value each was written from.
NoFile == [vals |-> NoMap, types |-> NoMap, from |-> NoMap]

\* ExportAllUnloadedValues, lines 285-309: the file after one enumerated
\* value.  The entry's name is the key path, a slash and the value name; a
\* DWORD is written as decimal text with the tag int, a string escaped with
\* the tag string, a value of another type or with its name in the table
\* not at all.
ExportValue(file, strPath, szValueName, rv, optionsMap) ==
  LET strName == strPath \o <<SLASH>> \o szValueName
  IN IF strName \in DOMAIN optionsMap
       THEN file
       ELSE IF rv.type = "REG_DWORD"
         THEN [vals |-> Put(file.vals, strName, ToStr(IntOfDword(rv.data))),
               types |-> Put(file.types, strName, "int"),
               from |-> Put(file.from, strName, rv)]
         ELSE IF rv.type = "REG_SZ"
           THEN [vals |-> Put(file.vals, strName, EscapeValue(CStr(rv.data))),
                 types |-> Put(file.types, strName, "string"),
                 from |-> Put(file.from, strName, rv)]
           ELSE file

\* Lines 271-324: the loop of RegEnumValue over the values of one key.
RECURSIVE ExportValues(_, _, _, _, _)
ExportValues(file, strPath, values, names, optionsMap) ==
  IF names = {}
    THEN file
    ELSE LET n == CHOOSE x \in names : TRUE
         IN ExportValues(ExportValue(file, strPath, n, values[n], optionsMap),
                         strPath, values, names \ {n}, optionsMap)

\* Line 333: the path of a child key.
ChildPath(strPath, szSubKey) ==
  IF strPath = Empty THEN szSubKey ELSE strPath \o <<BSLASH>> \o szSubKey

\* ExportAllUnloadedValues(hKey, strPath, ...): the values of the key, then
\* each child key (lines 326-349) in turn.
RECURSIVE ExportAllUnloadedValues(_, _, _, _)
RECURSIVE ExportChildren(_, _, _, _, _)
ExportAllUnloadedValues(store, strPath, file, optionsMap) ==
  ExportChildren(store, strPath,
                 {SubKeyName(k) : k \in ChildKeys(store, strPath)},
                 ExportValues(file, strPath, store[strPath],
                              DOMAIN store[strPath], optionsMap),
                 optionsMap)

ExportChildren(store, strPath, subKeys, file, optionsMap) ==
  IF subKeys = {}
    THEN file
    ELSE LET s == CHOOSE x \in subKeys : TRUE
         IN ExportChildren(store, strPath, subKeys \ {s},
                           ExportAllUnloadedValues(store, ChildPath(strPath, s),
                                                   file, optionsMap),
                           optionsMap)

\* CRegOptionsMgr::ExportOptions: the walk from the root key, writing into
\* the file as it is (COptionsMgr::ExportOptions, which follows it, writes
\* the options of the table and is left out).  `exported` keeps the store and the table the walk saw
\* and the names it wrote.
ExportOptions(c, o) ==
  /\ o.op = "ExportOptions"
  /\ Called(c)
  /\ ini' = ExportAllUnloadedValues(reg, Empty, ini, m_optionsMap)
  /\ exported' =
       <<[store |-> reg, map |-> m_optionsMap,
          wrote |-> ExportAllUnloadedValues(reg, Empty, NoFile, m_optionsMap)]>>
  /\ LET r == [NoRet EXCEPT !.op = "ExportOptions", !.rc = "OPT_OK"]
     IN /\ Returned(c, r)
        /\ scn' = [Disturbed(c, o) EXCEPT ![c] = Noted(@, r, Rest(c))]
  /\ UNCHANGED <<reg, m_optionsMap, m_hKeys, hOpen, hDeleted, m_cs, m_dwQueueCount,
                 queue, wk, life, nextId, completed, applyLog, dropped>>

\* ------------------------------------------------------------------ import

\* The characters of option names in the order of their codes.
NameChars == <<"/", "\\", "a", "b", "v", "w">>

CharCode(ch) == CHOOSE i \in 1..Len(NameChars) : NameChars[i] = ch

\* std::map<String, String>: the order of its keys.
RECURSIVE NameLess(_, _)
NameLess(a, b) ==
  IF b = Empty
    THEN FALSE
    ELSE IF a = Empty
      THEN TRUE
      ELSE IF Head(a) = Head(b)
        THEN NameLess(Tail(a), Tail(b))
        ELSE CharCode(Head(a)) < CharCode(Head(b))

RECURSIVE SortedNames(_)
SortedNames(S) ==
  IF S = {}
    THEN << >>
    ELSE LET m == CHOOSE x \in S : \A y \in S \ {x} : NameLess(x, y)
         IN <<m>> \o SortedNames(S \ {m})

\* ReadIniFile: the entries of a section, their values unescaped.
ReadIniFile(section) == [k \in DOMAIN section |-> UnescapeValue(section[k])]

\* ImportAllUnloadedValues, lines 359-360: the entry is not an option of the
\* table and has a type tag.
ImportAcceptsUntagged(key, optionsMap, types) == key \notin DOMAIN optionsMap

ImportAccepts(key, optionsMap, types) ==
  key \notin DOMAIN optionsMap /\ key \in DOMAIN types

\* iniFileKeyTypes[key]: the tag, the empty text for a key the map lacks.
TypeOf(types, key) == IF key \in DOMAIN types THEN types[key] ELSE ""

\* A decoding that takes a value of another tag for a string.
ImportDecodeAny(strType, strValue) ==
  IF strType = "bool"
    THEN VBool(Strtoll(strValue, 10) # 0)
    ELSE IF strType = "int" THEN VInt(ParseIntText(strValue)) ELSE VStr(strValue)

\* Lines 365-378: the value decoded by its tag (the tags of the files here
\* are in lower case); Null for another tag.
ImportDecode(strType, strValue) ==
  IF strType = "bool"
    THEN VBool(Strtoll(strValue, 10) # 0)
    ELSE IF strType = "int"
      THEN VInt(ParseIntText(strValue))
      ELSE IF strType = "string" THEN VStr(strValue) ELSE VNull

\* CRegOptionsMgr::ImportOptions is called: both sections are read (lines
\* 355-356; a tag holds nothing to unescape).  The critical section is not entered and the queue not waited
\* for.
ImportOptions(c, o) ==
  /\ o.op = "ImportOptions"
  /\ Called(c)
  /\ pc' = [pc EXCEPT ![c] = "ImportNext"]
  /\ arg' = [arg EXCEPT ![c] =
               [NoArg EXCEPT !.vals = ReadIniFile(ini.vals),
                             !.types = ini.types,
                             !.todo = SortedNames(DOMAIN ini.vals)]]
  /\ ret' = [ret EXCEPT ![c] = [NoRet EXCEPT !.file = ini, !.map = m_optionsMap]]
  /\ scn' = Disturbed(c, o)
  /\ UNCHANGED <<reg, ini, m_optionsMap, m_hKeys, hOpen, hDeleted, m_cs,
                 m_dwQueueCount, queue, wk, life, nextId, completed, applyLog,
                 dropped, exported>>

\* The loop of line 357 and OpenKey's look into the cache (line 73): an
\* entry that is not accepted is passed over; for an accepted one the cached
\* handle is taken, or the key is to be opened.  After the last entry the
\* import returns.
ImportNext(c) ==
  /\ pc[c] = "ImportNext"
  /\ IF arg[c].todo = << >>
       THEN LET r == [ret[c] EXCEPT !.op = "ImportOptions", !.rc = "OPT_OK",
                                    !.log = arg[c].log]
            IN /\ Returned(c, r)
               /\ scn' = [scn EXCEPT ![c] = Noted(@, r, script[c])]
       ELSE LET key == Head(arg[c].todo)
                strPath == SplitName(key)[1]
            IN /\ arg' = [arg EXCEPT ![c] =
                 IF ~ImportAccepts(key, m_optionsMap, arg[c].types)
                   THEN [@ EXCEPT !.todo = Tail(@)]
                   ELSE IF CacheMiss(strPath, m_hKeys)
                     THEN [@ EXCEPT !.miss = TRUE]
                     ELSE [@ EXCEPT !.hKey = m_hKeys[strPath]]]
               /\ pc' = [pc EXCEPT ![c] =
                    IF ~ImportAccepts(key, m_optionsMap, arg[c].types)
                      THEN "ImportNext"
                      ELSE IF CacheMiss(strPath, m_hKeys)
                        THEN "ImportOpen" ELSE "ImportSave"]
               /\ UNCHANGED <<ret, scn>>
  /\ UNCHANGED <<reg, ini, m_optionsMap, m_hKeys, hOpen, hDeleted, m_cs,
                 m_dwQueueCount, queue, wk, life, script, nOps, nextId, completed,
                 applyLog, dropped, exported>>

\* OpenKey, lines 75-91, after a miss: the key is created and the handle put
\* into the cache, over the entry another thread may have made meanwhile.
ImportOpen(c) ==
  /\ pc[c] = "ImportOpen"
  /\ LET ok == OpenUncached(SplitName(Head(arg[c].todo))[1], TRUE, reg, m_hKeys,
                            hOpen)
     IN /\ reg' = ok.store
        /\ m_hKeys' = ok.hKeys
        /\ hOpen' = ok.open
        /\ arg' = [arg EXCEPT ![c] = [@ EXCEPT !.hKey = ok.hKey, !.miss = FALSE]]
  /\ pc' = [pc EXCEPT ![c] = "ImportSave"]
  /\ UNCHANGED <<ini, m_optionsMap, hDeleted, m_cs, m_dwQueueCount, queue, wk,
                 life, ret, script, scn, nOps, nextId, completed, applyLog, dropped,
                 exported>>

\* Lines 362-381: the value is decoded by its tag and saved through the
\* handle; `log` keeps what the store holds under the name right after.
ImportSave(c) ==
  /\ pc[c] = "ImportSave"
  /\ LET key == Head(arg[c].todo)
         sp == SplitName(key)
         value == ImportDecode(TypeOf(arg[c].types, key), arg[c].vals[key])
         sv == IF arg[c].hKey # NullH
                 THEN SaveValueToReg(arg[c].hKey, sp[2], value, reg, hDeleted)
                 ELSE [store |-> reg, retVal |-> "OPT_ERR"]
         cl == IF arg[c].hKey # NullH
                 THEN CloseKey(arg[c].hKey, sp[1], m_hKeys, hOpen)
                 ELSE [hKeys |-> m_hKeys, open |-> hOpen]
         held == IF sp[1] \in DOMAIN sv.store /\ sp[2] \in DOMAIN sv.store[sp[1]]
                   THEN sv.store[sp[1]][sp[2]]
                   ELSE [type |-> "REG_NONE", data |-> Empty]
     IN /\ reg' = sv.store
        /\ m_hKeys' = cl.hKeys
        /\ hOpen' = cl.open
        /\ arg' = [arg EXCEPT ![c] =
             [@ EXCEPT !.todo = Tail(@), !.hKey = NullH,
                       !.log = Append(@, [name |-> key, held |-> held,
                                          rc |-> sv.retVal])]]
  /\ pc' = [pc EXCEPT ![c] = "ImportNext"]
  /\ UNCHANGED <<ini, m_optionsMap, hDeleted, m_cs, m_dwQueueCount, queue, wk,
                 life, ret, script, scn, nOps, nextId, completed, applyLog, dropped,
                 exported>>

\* --------------------------------------------------------------- lifetime

\* ~CRegOptionsMgr is called: m_pIOHandler.reset() runs ~IOHandler.
Destroy(c, o) ==
  /\ o.op = "Destroy"
  /\ Called(c)
  /\ pc' = [pc EXCEPT ![c] = "DtorPost"]
  /\ arg' = [arg EXCEPT ![c] = NoArg]
  /\ scn' = Disturbed(c, o)
  /\ UNCHANGED <<reg, ini, m_optionsMap, m_hKeys, hOpen, hDeleted, m_cs,
                 m_dwQueueCount, queue, wk, life, ret, nextId, completed, applyLog,
                 dropped, exported>>

\* The writes posted to the channel so far, and those of them whose count
\* has not been taken down.
PostedWrites == {w \in 1..(nextId - 1) : \E e \in completed : e.id = w} \ dropped

PendingWrites ==
  {queue[i].id : i \in {j \in 1..Len(queue) : queue[j].message = "WM_USER"}}
    \cup (IF wk.pc \in {"got", "locked", "saved"} THEN {wk.msg.id} ELSE {})

\* A quit that overtakes the messages of the queue.
PostQuitFirst(q) == <<[NoMsg EXCEPT !.message = "WM_QUIT"]>> \o q

\* PostThreadMessage(WM_QUIT), line 50: the message goes behind those of the
\* queue.
PostQuit(q) == Append(q, [NoMsg EXCEPT !.message = "WM_QUIT"])

\* ~IOHandler, line 50: WM_QUIT is posted behind the messages of the queue;
\* the post fails when the thread has ended.  The first time round, the
\* writes posted before it are noted.
DtorPost(c) ==
  /\ pc[c] = "DtorPost"
  /\ arg[c].quits < MaxQuit
  /\ queue' = IF PostOk THEN PostQuit(queue) ELSE queue
  /\ arg' = [arg EXCEPT ![c] =
               [@ EXCEPT !.quits = @ + 1,
                         !.snap = IF arg[c].quits = 0 THEN PostedWrites ELSE @,
                         !.pend = IF arg[c].quits = 0 THEN PendingWrites ELSE @]]
  /\ pc' = [pc EXCEPT ![c] = "DtorWait"]
  /\ UNCHANGED <<reg, ini, m_optionsMap, m_hKeys, hOpen, hDeleted, m_cs,
                 m_dwQueueCount, wk, life, ret, script, scn, nOps, nextId,
                 completed, applyLog, dropped, exported>>

\* Line 51, the wait of a millisecond timed out: the thread has not ended
\* and the loop goes round.
DtorTimeout(c) ==
  /\ pc[c] = "DtorWait"
  /\ wk.pc # "exited"
  /\ arg[c].quits < MaxQuit
  /\ pc' = [pc EXCEPT ![c] = "DtorPost"]
  /\ UNCHANGED <<reg, ini, m_optionsMap, m_hKeys, hOpen, hDeleted, m_cs,
                 m_dwQueueCount, queue, wk, life, arg, ret, script, scn, nOps,
                 nextId, completed, applyLog, dropped, exported>>

\* Lines 51-54: the thread has ended; the critical section is deleted and
\* the members go, the table with the manager.  No handle of m_hKeys is
\* closed.
DtorFinish(c) ==
  /\ pc[c] = "DtorWait"
  /\ wk.pc = "exited"
  /\ life' = "down"
  /\ m_optionsMap' = NoMap
  /\ m_hKeys' = NoMap
  /\ queue' = << >>
  /\ LET r == [NoRet EXCEPT !.op = "Destroy", !.rc = "OPT_OK",
                           !.snap = arg[c].snap]
     IN /\ Returned(c, r)
        /\ scn' = [scn EXCEPT ![c] = Noted(@, r, script[c])]
  /\ UNCHANGED <<reg, ini, hOpen, hDeleted, m_cs, m_dwQueueCount, wk, script, nOps,
                 nextId, completed, applyLog, dropped, exported>>

\* What a caller may do while no instance exists: construct one.
Reopenings(c) ==
  IF pc[c] # "idle" \/ life # "down"
    THEN {}
    ELSE IF script[c] # << >>
      THEN {Head(script[c])}
      ELSE IF nOps < MaxOps THEN {Op("Construct", Empty, VNull)} ELSE {}

\* CRegOptionsMgr::CRegOptionsMgr and IOHandler::IOHandler with the same
\* path: an empty table and cache, a new writer thread waiting for messages,
\* the root key created when missing (SetRegRootKey).
Construct(c, o) ==
  /\ o.op = "Construct"
  /\ Called(c)
  /\ life' = "up"
  /\ m_optionsMap' = NoMap
  /\ m_hKeys' = NoMap
  /\ m_cs' = "none"
  /\ m_dwQueueCount' = 0
  /\ queue' = << >>
  /\ wk' = [pc |-> "wait", msg |-> NoMsg, hKey |-> NullH]
  /\ reg' = RegCreateKey(reg, Empty)
  /\ LET r == [NoRet EXCEPT !.op = "Construct", !.rc = "OPT_OK"]
     IN /\ Returned(c, r)
        /\ scn' = [Disturbed(c, o) EXCEPT ![c] = Noted(@, r, Rest(c))]
  /\ UNCHANGED <<ini, hOpen, hDeleted, nextId, completed, applyLog, dropped,
                 exported>>

\* ------------------------------------------------------- inputs of callers

\* The default each option is initialised with, and the values saved to it.
DefaultOf(n) ==
  IF n = nV THEN VInt(5) ELSE IF n = nAV THEN VStr(<<"s">>) ELSE VBool(FALSE)

SaveValues(n) ==
  IF n = nV THEN {VInt(5), VInt(-1)}
  ELSE IF n = nAV THEN {VStr(<<"s">>), VStr(Empty)}
  ELSE {VBool(FALSE), VBool(TRUE)}

Flush == Op("FlushOptions", Empty, VNull)

InitOps(names) == {Op("InitOption", n, DefaultOf(n)) : n \in names}
SaveOps(names) == UNION {{Op("SaveOption", n, v) : v \in SaveValues(n)} : n \in names}
RemoveOps(names) == {Op("RemoveOption", n, VNull) : n \in names}

\* The operations callers choose freely: on an option of a child key and on
\* the tree below the root.
QueueMenu ==
  InitOps({nAV}) \cup SaveOps({nAV}) \cup RemoveOps({nAV, nRootTree})
    \cup {Flush, Op("CloseKeys", Empty, VNull)}

\* The scenarios: sequences of operations one caller calls one after another.
\* Each starts by initialising the option, so that it can be saved.
RoundTripOps(n, v) ==
  <<Op("InitOption", n, DefaultOf(n)), Flush, Op("SaveOption", n, v), Flush,
    Op("InitOption", n, DefaultOf(n))>>

RemoveReadOps(n, v) ==
  <<Op("InitOption", n, DefaultOf(n)), Op("SaveOption", n, v),
    Op("RemoveOption", n, VNull), Op("InitOption", n, DefaultOf(n))>>

FifoOps(n, v1, v2) ==
  <<Op("InitOption", n, DefaultOf(n)), Op("SaveOption", n, v1),
    Op("SaveOption", n, v2), Flush>>

InitReadOps(n) ==
  <<Op("InitOption", n, DefaultOf(n)), Flush, Op("InitOption", n, DefaultOf(n))>>

Scenario(kind, n, ops) == [kind |-> kind, name |-> n, ops |-> ops]

QueueScenarios ==
  UNION {{Scenario("RoundTrip", n, RoundTripOps(n, v)) : v \in SaveValues(n)}
           \cup {Scenario("RemoveRead", n, RemoveReadOps(n, v)) : v \in SaveValues(n)}
           \cup {Scenario("Fifo", n, FifoOps(n, v, w)) :
                   <<v, w>> \in {x \in SaveValues(n) \X SaveValues(n) : x[1] # x[2]}}
           \cup {Scenario("InitRead", n, InitReadOps(n))}
         : n \in OptNames}

\* Caller c sets out on a scenario, the only one of the behaviour; it is
\* undisturbed from the start when no other caller is in an operation.
BeginScenario(c, sc) ==
  /\ pc[c] = "idle"
  /\ life = "up"
  /\ script[c] = << >>
  /\ nOps < MaxOps
  /\ \A d \in Callers : scn[d].kind = "none"
  /\ script' = [script EXCEPT ![c] = sc.ops]
  /\ scn' = [scn EXCEPT ![c] =
               [kind |-> sc.kind, name |-> sc.name, active |-> TRUE,
                clean |-> \A d \in Callers \ {c} : pc[d] = "idle", out |-> << >>]]
  /\ nOps' = nOps + 1
  /\ UNCHANGED <<reg, ini, m_optionsMap, m_hKeys, hOpen, hDeleted, m_cs,
                 m_dwQueueCount, queue, wk, life, pc, arg, ret, nextId, completed,
                 applyLog, dropped, exported>>

\* A registry a previous run has left: values at every depth, one of them of
\* a type this program never writes.
RegEmpty == (Empty :> NoValues)

RegPrior ==
  (Empty :> (<<"v">> :> EncodeValue(VInt(7))))
  @@ (<<"a">> :> (<<"v">> :> EncodeValue(VStr(<<"t", LF>>))))
  @@ (<<"a", "\\", "b">> :>
        ((<<"v">> :> EncodeValue(VBool(TRUE)))
         @@ (<<"x">> :> [type |-> "REG_BINARY", data |-> <<1>>])))

\* The writer thread after construction: waiting in GetMessage (line 433),
\* or, when CreateEvent failed (lines 33-34), not started: m_dwThreadId is 0,
\* PostThreadMessage fails and the wait on m_hThread does not time out.
WriterWaits == [pc |-> "wait", msg |-> NoMsg, hKey |-> NullH]

WriterNotStarted == [pc |-> "exited", msg |-> NoMsg, hKey |-> NullH]

\* The state after construction: the writer thread waits for messages, the
\* cache and the table are empty, the root key exists (SetRegRootKey).
InitThreads(regs, files, threads) ==
  /\ reg \in regs
  /\ ini \in files
  /\ m_optionsMap = NoMap
  /\ m_hKeys = NoMap
  /\ hOpen = {}
  /\ hDeleted = {}
  /\ m_cs = "none"
  /\ m_dwQueueCount = 0
  /\ queue = << >>
  /\ wk \in threads
  /\ life = "up"
  /\ pc = [c \in Callers |-> "idle"]
  /\ arg = [c \in Callers |-> NoArg]
  /\ ret = [c \in Callers |-> NoRet]
  /\ script = [c \in Callers |-> << >>]
  /\ scn = [c \in Callers |-> NoScn]
  /\ nOps = 0
  /\ nextId = 1
  /\ completed = {}
  /\ applyLog = << >>
  /\ dropped = {}
  /\ exported = << >>

InitWith(regs, files) == InitThreads(regs, files, {WriterWaits})

Init == InitWith({RegEmpty, RegPrior}, {NoFile})

Writer == WriterGet \/ WriterEnter \/ WriterSave \/ WriterDone

Next ==
  \/ Writer
  \/ \E c \in Callers :
       \/ \E o \in Candidates(c, QueueMenu) :
            \/ SaveOption(c, o)
            \/ FlushOptions(c, o)
            \/ InitOption(c, o)
            \/ RemoveOption(c, o)
            \/ CloseKeys(c, o)
       \/ Post(c)
       \/ FlushReturn(c)
       \/ Read(c)
       \/ RemoveWait(c)
       \/ Remove(c)

\* Callers of the write queue, each choosing its operations freely.
Spec == Init /\ [][Next]_vars

\* One caller, which chooses operations freely and runs one scenario.
Main == "c1"

NextScenario ==
  \/ Writer
  \/ \E o \in Candidates(Main, QueueMenu) :
       \/ SaveOption(Main, o)
       \/ FlushOptions(Main, o)
       \/ InitOption(Main, o)
       \/ RemoveOption(Main, o)
       \/ CloseKeys(Main, o)
  \/ \E sc \in QueueScenarios : BeginScenario(Main, sc)
  \/ Post(Main)
  \/ FlushReturn(Main)
  \/ Read(Main)
  \/ RemoveWait(Main)
  \/ Remove(Main)

SpecScenario == Init /\ [][NextScenario]_vars

\* A file a previous export of RegPrior has written, and a file edited by
\* hand: an entry of an option, a hexadecimal int, a bool and an entry
\* without a type tag.
FilePrior == ExportAllUnloadedValues(RegPrior, Empty, NoFile, NoMap)

FileEdited ==
  [vals |-> (nAV :> <<"s", ESC, "J">>)
              @@ (<<"a", "/", "w">> :> <<"0", "x", "1", "f">>)
              @@ (<<"/", "v">> :> <<"1">>)
              @@ (<<"b", "/", "w">> :> <<"5">>),
   types |-> (nAV :> "string") @@ (<<"a", "/", "w">> :> "int")
               @@ (<<"/", "v">> :> "bool"),
   from |-> NoMap]

\* The operations of the caller that exports and imports.
ReconcileMenu ==
  InitOps({nV, nAV}) \cup {Op("SaveOption", nV, VInt(-1))}
    \cup RemoveOps({nAV, nRootTree})
    \cup {Op("CloseKeys", Empty, VNull), Op("ExportOptions", Empty, VNull),
          Op("ImportOptions", Empty, VNull)}

InitReconcile == InitWith({RegEmpty, RegPrior}, {NoFile, FilePrior, FileEdited})

NextReconcile ==
  \/ Writer
  \/ \E o \in Candidates(Main, ReconcileMenu) :
       \/ SaveOption(Main, o)
       \/ InitOption(Main, o)
       \/ RemoveOption(Main, o)
       \/ CloseKeys(Main, o)
       \/ ExportOptions(Main, o)
       \/ ImportOptions(Main, o)
  \/ Post(Main)
  \/ Read(Main)
  \/ RemoveWait(Main)
  \/ Remove(Main)
  \/ ImportNext(Main)
  \/ ImportOpen(Main)
  \/ ImportSave(Main)

\* One caller that also exports the store to the file and imports the file.
SpecReconcile == InitReconcile /\ [][NextReconcile]_vars

\* The restart: an option is saved and flushed, the instance destroyed and
\* another constructed on the same root, the option initialised again.
RestartOps(n, v) ==
  <<Op("InitOption", n, DefaultOf(n)), Op("SaveOption", n, v), Flush,
    Op("Destroy", Empty, VNull), Op("Construct", Empty, VNull),
    Op("InitOption", n, DefaultOf(n))>>

RestartScenarios ==
  UNION {{Scenario("Restart", n, RestartOps(n, v)) :
            v \in SaveValues(n) \ {DefaultOf(n)}} : n \in OptNames}

RestartMenu ==
  InitOps({nAV}) \cup SaveOps({nAV}) \cup RemoveOps(TreeNames)
    \cup {Flush, Op("CloseKeys", Empty, VNull), Op("Destroy", Empty, VNull)}

NextRestart ==
  \/ Writer
  \/ \E o \in Candidates(Main, RestartMenu) :
       \/ SaveOption(Main, o)
       \/ FlushOptions(Main, o)
       \/ InitOption(Main, o)
       \/ RemoveOption(Main, o)
       \/ CloseKeys(Main, o)
       \/ Destroy(Main, o)
  \/ \E o \in Reopenings(Main) : Construct(Main, o)
  \/ \E sc \in RestartScenarios : BeginScenario(Main, sc)
  \/ Post(Main)
  \/ FlushReturn(Main)
  \/ Read(Main)
  \/ RemoveWait(Main)
  \/ Remove(Main)
  \/ DtorPost(Main)
  \/ DtorTimeout(Main)
  \/ DtorFinish(Main)

\* One caller that also destroys the instance and constructs it anew.
SpecRestart == Init /\ [][NextRestart]_vars

\* The callers of the fair specification: Main initialises, saves, flushes
\* and removes, the other caller saves and flushes.  Main also destroys the
\* instance, when no other caller is inside a call, and nobody calls an
\* instance whose destructor runs.
LiveMenu(c) ==
  IF c = Main
    THEN InitOps({nAV}) \cup SaveOps({nAV}) \cup RemoveOps({nATree}) \cup {Flush}
    ELSE SaveOps({nAV}) \cup {Flush}

Destroying == \E d \in Callers : pc[d] \in {"DtorPost", "DtorWait"}

Quiet(c) == \A d \in Callers \ {c} : pc[d] = "idle"

LiveCandidates(c) == IF Destroying THEN {} ELSE Candidates(c, LiveMenu(c))

\* The steps caller c takes inside a call.
Step(c) ==
  \/ Post(c)
  \/ FlushReturn(c)
  \/ Read(c)
  \/ RemoveWait(c)
  \/ Remove(c)
  \/ DtorPost(c)
  \/ DtorTimeout(c)
  \/ DtorFinish(c)

\* Those of them that only post, wait or leave a wait.
WaitStep(c) ==
  \/ Post(c)
  \/ FlushReturn(c)
  \/ RemoveWait(c)
  \/ DtorPost(c)
  \/ DtorTimeout(c)
  \/ DtorFinish(c)

\* The states in which a thread can enter the critical section and do its
\* work there: Remove of caller c, the writer's OpenKey and SaveValueToReg.
CanRemove(c) == pc[c] = "RemoveEnter" /\ m_cs = "none"

CanApply == (wk.pc = "got" /\ m_cs = "none") \/ wk.pc = "locked"

NextLive ==
  \/ Writer
  \/ \E c \in Callers :
       \/ \E o \in LiveCandidates(c) :
            \/ SaveOption(c, o)
            \/ FlushOptions(c, o)
            \/ InitOption(c, o)
            \/ RemoveOption(c, o)
       \/ Step(c)
  \/ \E o \in Candidates(Main, {Op("Destroy", Empty, VNull)}) :
       Quiet(Main) /\ Destroy(Main, o)

\* Callers and the writer under fair scheduling: a thread that can take a
\* step takes it.  This is weak fairness of each step; for the steps inside
\* the critical section, which leave the state that enables them, it is
\* written as that state not lasting forever.
SpecLive ==
  /\ Init
  /\ [][NextLive]_vars
  /\ WF_vars(WriterGet \/ WriterDone)
  /\ []<>~CanApply
  /\ \A c \in Callers : WF_vars(WaitStep(c))
  /\ \A c \in Callers : []<>~CanRemove(c)

\* Callers of an instance whose writer thread may not have started, so that
\* posts to it fail.
DropMenu == InitOps({nAV}) \cup SaveOps({nAV}) \cup {Flush}

InitDrop == InitThreads({RegEmpty, RegPrior}, {NoFile}, {WriterWaits, WriterNotStarted})

NextDrop ==
  \/ Writer
  \/ \E c \in Callers :
       \/ \E o \in Candidates(c, DropMenu) :
            \/ SaveOption(c, o)
            \/ FlushOptions(c, o)
            \/ InitOption(c, o)
       \/ Post(c)
       \/ FlushReturn(c)
       \/ Read(c)

SpecDrop == InitDrop /\ [][NextDrop]_vars

\* A file with an entry whose type tag the import does not know, beside an
\* int and a string.
FileOdd ==
  [vals |-> (<<"a", "/", "b">> :> <<"1">>) @@ (<<"a", "/", "w">> :> <<"5">>)
              @@ (<<"/", "w">> :> <<"s">>),
   types |-> (<<"a", "/", "b">> :> "float") @@ (<<"a", "/", "w">> :> "int")
               @@ (<<"/", "w">> :> "string"),
   from |-> NoMap]

\* The defaults InitOption is called with here: one of each type, and Null.
AnyDefaults == {VInt(5), VBool(FALSE), VStr(<<"s">>), VNull}

\* One caller that initialises options with defaults of any type, saves by
\* name and by value, removes the tree and imports the file.
TypesMenu ==
  {Op("InitOption", n, d) : n \in {nV, nAV}, d \in AnyDefaults}
    \cup {Op("SaveOptionByName", n, VNull) : n \in {nV, nAV}}
    \cup {Op("SaveOption", nV, VInt(0)), Op("SaveOption", nV, VNull)}
    \cup RemoveOps({nRootTree})
    \cup {Op("ImportOptions", Empty, VNull)}

InitTypes == InitWith({RegEmpty, RegPrior}, {FileOdd})

NextTypes ==
  \/ Writer
  \/ \E o \in Candidates(Main, TypesMenu) :
       \/ SaveOption(Main, o)
       \/ SaveOptionByName(Main, o)
       \/ InitOption(Main, o)
       \/ RemoveOption(Main, o)
       \/ ImportOptions(Main, o)
  \/ Post(Main)
  \/ Read(Main)
  \/ RemoveWait(Main)
  \/ Remove(Main)
  \/ ImportNext(Main)
  \/ ImportOpen(Main)
  \/ ImportSave(Main)

SpecTypes == InitTypes /\ [][NextTypes]_vars

\* ------------------------------------------------------------------ claims

\* The writes in the channel or taken by the writer and not yet saved.
InFlight ==
  {queue[i].id : i \in {j \in 1..Len(queue) : queue[j].message = "WM_USER"}}
    \cup (IF wk.pc \in {"got", "locked"} THEN {wk.msg.id} ELSE {})

\* A caller's scenario of kind k has run to its end undisturbed.
Ran(c, k) == scn[c].kind = k /\ ~scn[c].active /\ scn[c].clean

\* The registry holds value under name.
HoldsInReg(name, value) ==
  LET sp == SplitName(name)
  IN /\ sp[1] \in DOMAIN reg
     /\ sp[2] \in DOMAIN reg[sp[1]]
     /\ reg[sp[1]][sp[2]] = EncodeValue(value)

\* C1: when FlushOptions has returned, every write whose WriteAsync had
\* returned before the call has been applied by the writer or was dropped
\* at its post; none is in the channel or being applied.
C1_FlushIsBarrier ==
  \A c \in Callers :
    ret[c].op = "FlushOptions" =>
      /\ ret[c].snap \subseteq Applied \cup dropped
      /\ ret[c].snap \cap InFlight = {}

\* C1's case: a flush has returned that had writes to wait for, of both callers.
C1_Witness ==
  \E c \in Callers :
    /\ ret[c].op = "FlushOptions"
    /\ \E x, y \in completed : x.by # y.by /\ {x.id, y.id} \subseteq ret[c].snap

\* C2: Flush; Write(n, v); Flush; Read(n), undisturbed, reads v back: the
\* read of the store succeeds and decodes to v.
C2_RoundTrip ==
  \A c \in Callers :
    (Ran(c, "RoundTrip") /\ scn[c].out[3].rc = "OPT_OK") =>
      /\ scn[c].out[5].read = "ERROR_SUCCESS"
      /\ scn[c].out[5].dec = scn[c].out[3].value
      /\ scn[c].out[5].got = scn[c].out[3].value

\* C3: the writes to n enqueued before Remove(n) was called are applied
\* before the delete, and a Read(n) right after Remove(n), with no write to n
\* enqueued since, reports NotFound.
C3_RemoveThenRead ==
  /\ \A c \in Callers :
       ret[c].op = "RemoveOption" => ret[c].snap \subseteq Applied \cup dropped
  /\ \A c \in Callers :
       Ran(c, "RemoveRead") => scn[c].out[4].read = "ERROR_FILE_NOT_FOUND"

\* The caller of write number id.
CallerOf(id) == (CHOOSE x \in completed : x.id = id).by

\* C4: one caller's writes are applied in the order it enqueued them, and
\* after SaveOption(n, v1); SaveOption(n, v2); Flush the store holds v2.
C4_Fifo ==
  /\ \A i, j \in 1..Len(applyLog) :
       (i < j /\ CallerOf(applyLog[i]) = CallerOf(applyLog[j]))
         => applyLog[i] < applyLog[j]
  /\ \A c \in Callers :
       (Ran(c, "Fifo") /\ scn[c].out[2].rc = "OPT_OK" /\ scn[c].out[3].rc = "OPT_OK")
         => HoldsInReg(scn[c].name, scn[c].out[3].value)

\* C5: SaveOption(n, v) returned Ok and Flush returned; the instance was
\* destroyed and a new one constructed on the same root: InitOption(n, d),
\* d of the type of v, returns Ok and leaves v, not d, in the table.
C5_PersistsAcrossRestart ==
  \A c \in Callers :
    (Ran(c, "Restart") /\ scn[c].out[2].rc = "OPT_OK") =>
      /\ scn[c].out[6].rc = "OPT_OK"
      /\ scn[c].out[6].got = scn[c].out[2].value

\* C6: InitOption of a name without a value in the store returns Ok, leaves
\* the default in the table and saves it, so that a read after a flush
\* finds the default in the store.
C6_InitSavesDefault ==
  \A c \in Callers :
    (Ran(c, "InitRead") /\ scn[c].out[1].read = "ERROR_FILE_NOT_FOUND") =>
      /\ scn[c].out[1].rc = "OPT_OK"
      /\ scn[c].out[1].got = scn[c].out[1].value
      /\ scn[c].out[3].read = "ERROR_SUCCESS"
      /\ scn[c].out[3].dec = scn[c].out[1].value

\* The names of the table that denote the store value vn of key path.
NamesOf(map, path, vn) == {n \in DOMAIN map : SplitName(n) = <<path, vn>>}

\* C7: an export writes an entry, in the values section and in the type-tag
\* section, for a store value if and only if the value is an Int (DWORD) or a
\* String and no name of OptionsMap denotes it, at every depth.
C7_ExportsUnmanaged ==
  \A i \in DOMAIN exported :
    \A path \in DOMAIN exported[i].store :
      \A vn \in DOMAIN exported[i].store[path] :
        LET entry == path \o <<SLASH>> \o vn
        IN (/\ entry \in DOMAIN exported[i].wrote.vals
            /\ entry \in DOMAIN exported[i].wrote.types)
             <=> (/\ exported[i].store[path][vn].type \in {"REG_DWORD", "REG_SZ"}
                  /\ NamesOf(exported[i].map, path, vn) = {})

\* C8: an import with an empty OptionsMap of a file an export has written
\* writes, for every exported entry, the store value it was exported from:
\* same key path, value name, type and data.
C8_ExportImportRoundTrip ==
  \A c \in Callers :
    (ret[c].op = "ImportOptions" /\ ret[c].map = NoMap) =>
      \A name \in DOMAIN ret[c].file.from :
        \E i \in DOMAIN ret[c].log :
          /\ ret[c].log[i].name = name
          /\ ret[c].log[i].held = ret[c].file.from[name]

\* The importer is at an entry the import is to skip: its name is in
\* OptionsMap or has no type tag.
AtSkippedEntry ==
  /\ pc[Main] \in {"ImportNext", "ImportOpen", "ImportSave"}
  /\ arg[Main].todo # << >>
  /\ \/ Head(arg[Main].todo) \in DOMAIN m_optionsMap
     \/ Head(arg[Main].todo) \notin DOMAIN arg[Main].types

\* C9: for an entry whose name is in OptionsMap or has no type tag the
\* import creates no key, writes no value and adds no cache entry: its step
\* at such an entry only passes on to the next, and nothing it has written
\* when it returns is under such a name.
C9_ImportSkipsUntouched ==
  /\ [][(AtSkippedEntry /\ <<pc[Main], arg[Main]>> # <<pc'[Main], arg'[Main]>>)
          => /\ UNCHANGED <<reg, m_hKeys, hOpen>>
             /\ pc'[Main] = "ImportNext"
             /\ arg'[Main].todo = Tail(arg[Main].todo)]_vars
  /\ [](ret[Main].op = "ImportOptions" =>
          \A i \in DOMAIN ret[Main].log :
            /\ ret[Main].log[i].name \notin DOMAIN ret[Main].map
            /\ ret[Main].log[i].name \in DOMAIN ret[Main].file.types)

\* C9's case: an import has returned that has written an entry and passed
\* over one of an option of the table and one without a type tag.
C9_Witness ==
  /\ ret[Main].op = "ImportOptions"
  /\ ret[Main].log # << >>
  /\ DOMAIN ret[Main].file.vals \cap DOMAIN ret[Main].map # {}
  /\ DOMAIN ret[Main].file.vals \ DOMAIN ret[Main].file.types # {}

\* C10: a path that is cached keeps its handle until CloseKeys (no step
\* removes or replaces an entry of the cache but the one that clears it), and
\* at every moment at most one handle is open per key path.
C10_CacheReuse ==
  /\ [](\A h1, h2 \in hOpen : h1[1] = h2[1] => h1 = h2)
  /\ [][\/ m_hKeys' = NoMap
        \/ \A p \in DOMAIN m_hKeys : p \in DOMAIN m_hKeys' /\ m_hKeys'[p] = m_hKeys[p]]_vars

\* A caller is inside the import's cache-mutating and store-writing code: its
\* OpenKey after a miss, its SaveValueToReg and CloseKey.
InImportCritical(c) == pc[c] \in {"ImportOpen", "ImportSave"}

\* C11: a thread inside cache-mutating or store-writing code holds the
\* shared lock, the importing caller as the writer thread does, so no two
\* threads are inside such code at the same time.
C11_LockDiscipline ==
  /\ wk.pc = "locked" => m_cs = "writer"
  /\ \A c \in Callers : InImportCritical(c) => m_cs = c
  /\ \A c \in Callers : ~(wk.pc = "locked" /\ InImportCritical(c))

\* C12: after a delete of a subtree the cache holds no handle of a key the
\* delete removed.
C12_CacheInvalidatedOnDelete == Range(m_hKeys) \cap hDeleted = {}

\* The writes WriteAsync has counted (line 60), and those of them neither
\* applied by the writer nor dropped by a failed post.
Counted == 1..(nextId - 1)

NotApplied == Counted \ (Applied \cup dropped)

\* The writes between WriteAsync's increment and its post.
BeingPosted == {arg[c].id : c \in {d \in Callers : pc[d] = "Post"}}

\* The writes whose count has not been taken down: those being posted, those
\* in the channel and the one the writer holds, up to its decrement.
NotTakenDown == BeingPosted \cup PendingWrites

QuitPosted(c) == pc[c] \in {"DtorPost", "DtorWait"} /\ arg[c].quits > 0

\* C14: every write posted to the channel before the destructor's first quit
\* has been applied by the writer, and its count taken down, when the writer
\* thread has ended.
C14_ShutdownDrains ==
  /\ \A c \in Callers :
       QuitPosted(c) /\ wk.pc = "exited" =>
         /\ arg[c].snap \subseteq Applied
         /\ arg[c].snap \cap NotTakenDown = {}
         /\ m_dwQueueCount = 0
  /\ \A c \in Callers :
       ret[c].op = "Destroy" /\ life = "down" => ret[c].snap \subseteq Applied

\* C14's case: the writer has ended after a quit that was posted behind a
\* write it had not yet applied.
C14_Witness ==
  /\ QuitPosted(Main)
  /\ wk.pc = "exited"
  /\ arg[Main].pend # {}
  /\ arg[Main].pend \subseteq Applied

\* Caller c waits for the count to reach zero.
WaitsForCount(c) == pc[c] \in {"Flush", "RemoveWait"}

\* C15: under fair scheduling every flush and every remove returns and the
\* destructor sees the writer thread ended; no thread waits for the count to
\* reach zero while it holds the critical section.
C15_NoOperationBlocksForever ==
  /\ \A c \in Callers : pc[c] = "Flush" ~> ret[c].op = "FlushOptions" /\ pc[c] = "idle"
  /\ \A c \in Callers :
       pc[c] \in {"RemoveWait", "RemoveEnter"} ~>
         ret[c].op = "RemoveOption" /\ pc[c] = "idle"
  /\ \A c \in Callers : pc[c] \in {"DtorPost", "DtorWait"} ~> life = "down"
  /\ [](\A c \in Callers : WaitsForCount(c) => m_cs # c)

\* C15's case: a remove and a flush wait while the writer holds the critical
\* section to apply a write.
C15_Witness ==
  /\ pc["c1"] = "RemoveWait"
  /\ pc["c2"] = "Flush"
  /\ wk.pc = "locked"
  /\ m_cs = "writer"

\* C16: once the instance is destroyed no key handle opened through the
\* cache is still open.
C16_CacheTornDown == life = "down" => hOpen = {}

\* The statuses of a store call that are no I/O failure other than NotFound.
NoIoFailure == {"none", "ERROR_SUCCESS", "ERROR_FILE_NOT_FOUND"}

\* C17: a synchronous operation in which a store call failed with another
\* status than NotFound returns OPT_ERR: the read of InitOption, the delete
\* of RemoveOption, a value write of ImportOptions.
C17_IoFailurePropagated ==
  \A c \in Callers :
    /\ ret[c].op \in {"InitOption", "RemoveOption"} /\ ret[c].read \notin NoIoFailure
         => ret[c].rc = "OPT_ERR"
    /\ ret[c].op = "ImportOptions"
         /\ (\E i \in 1..Len(ret[c].log) : ret[c].log[i].rc = "OPT_ERR")
         => ret[c].rc = "OPT_ERR"

\* C18: a write whose post failed leaves the count as it was before the
\* call, is never applied to the store, and its SaveOption returns OPT_OK.
C18_FailedPostIsSilentDrop ==
  /\ m_dwQueueCount = Cardinality(NotTakenDown)
  /\ dropped \cap NotTakenDown = {}
  /\ dropped \cap Applied = {}
  /\ \A c \in Callers :
       ret[c].op = "SaveOption" /\ ret[c].snap # {} /\ ret[c].snap \subseteq dropped
         => ret[c].rc = "OPT_OK"
  /\ wk = WriterNotStarted =>
       /\ m_dwQueueCount = Cardinality(BeingPosted)
       /\ queue = << >>
       /\ reg \in {RegEmpty, RegPrior}

\* C18's case: a SaveOption whose post failed has returned while another
\* caller is between its increment and its post.
C18_Witness ==
  /\ ret["c1"].op = "SaveOption"
  /\ ret["c1"].snap # {}
  /\ ret["c1"].snap \subseteq dropped
  /\ pc["c2"] = "Post"
  /\ m_dwQueueCount = 1

\* A store value as SaveValueToReg writes an Int, a Bool or a String: a
\* DWORD of four bytes or a text with its terminator.
TypedValue(rv) ==
  \/ rv.type = "REG_DWORD" /\ Len(rv.data) = 4
  \/ rv.type = "REG_SZ" /\ Len(rv.data) > 0 /\ rv.data[Len(rv.data)] = NUL

\* The step has written the value n of key k.
Written(k, n) ==
  /\ k \in DOMAIN reg' /\ n \in DOMAIN reg'[k]
  /\ k \notin DOMAIN reg \/ n \notin DOMAIN reg[k] \/ reg[k][n] # reg'[k][n]

\* The step is a call by caller c that has returned at once with op.
ReturnsAtOnce(c, op) ==
  pc[c] = "idle" /\ pc'[c] = "idle" /\ nOps' = nOps + 1 /\ ret'[c].op = op

KnownTags == {"bool", "int", "string"}

\* C19: no Null reaches the store.  Every value a step writes to the store
\* is an Int, a Bool or a String; no Null is in the table, in a write being
\* posted, in the channel or with the writer; SaveOption(name) for a name
\* whose table value is Null returns OPT_NOTFOUND, posts nothing and leaves
\* the count; InitOption with a Null default returns OPT_ERR and adds
\* nothing; an import entry with an unknown tag writes no value.
C19_NullNeverPersisted ==
  /\ [](/\ \A n \in DOMAIN m_optionsMap : m_optionsMap[n].t # "VT_NULL"
        /\ \A c \in Callers : pc[c] \in {"Post", "Read"} => arg[c].value.t # "VT_NULL"
        /\ \A i \in 1..Len(queue) :
             queue[i].message = "WM_USER" => queue[i].value.t # "VT_NULL"
        /\ wk.pc \in {"got", "locked", "saved"} => wk.msg.value.t # "VT_NULL")
  /\ [][/\ \A k \in DOMAIN reg' : \A n \in DOMAIN reg'[k] :
             Written(k, n) => TypedValue(reg'[k][n])
        /\ \A c \in Callers :
             /\ ReturnsAtOnce(c, "SaveOptionByName") =>
                  /\ GetOption(m_optionsMap, ret'[c].name) = VNull
                  /\ ret'[c].rc = "OPT_NOTFOUND"
                  /\ UNCHANGED <<m_dwQueueCount, queue, nextId, reg>>
             /\ pc[c] = "idle" /\ pc'[c] = "Post" =>
                  GetOption(m_optionsMap', arg'[c].name) # VNull
             /\ ReturnsAtOnce(c, "InitOption") =>
                  /\ ret'[c].value = VNull
                  /\ ret'[c].rc = "OPT_ERR"
                  /\ UNCHANGED <<m_optionsMap, reg, m_dwQueueCount, queue>>
             /\ pc[c] = "ImportSave"
                  /\ TypeOf(arg[c].types, Head(arg[c].todo)) \notin KnownTags
                  /\ pc'[c] # "ImportSave"
                  => reg' = reg]_vars

\* C19's case: an import has met the entry with the unknown tag, after a
\* SaveOption(name) of a Null table value and an InitOption with a Null
\* default; a write has been applied.
C19_Witness ==
  /\ ret[Main].op = "ImportOptions"
  /\ \E i \in 1..Len(ret[Main].log) :
       /\ TypeOf(FileOdd.types, ret[Main].log[i].name) \notin KnownTags
       /\ ret[Main].log[i].rc = "OPT_UNKNOWN_TYPE"
  /\ applyLog # << >>

\* The store type of rv does not match the type of the default: a text where
\* an Int or a Bool is expected, a word where a String is expected.
Mismatch(rv, defaultValue) ==
  \/ rv.type = "REG_SZ" /\ defaultValue.t \in {"VT_INT", "VT_BOOL"}
  \/ rv.type = "REG_DWORD" /\ defaultValue.t = "VT_STRING"

\* The step is the return of caller c's InitOption of a name the store holds
\* a value for.
InitReturnsOnValue(c) ==
  /\ pc[c] = "Read" /\ pc'[c] = "idle"
  /\ SplitName(arg[c].name)[1] \in DOMAIN reg
  /\ SplitName(arg[c].name)[2] \in DOMAIN reg[SplitName(arg[c].name)[1]]

\* C20: InitOption of a name whose store value does not match the type of
\* the default returns OPT_WRONG_TYPE, leaves the default in the table and
\* the store as it is; a word is decoded as the Int it encodes for an Int
\* default and as the Bool "non-zero" for a Bool default.
C20_TypeMismatchOnLoad ==
  [][\A c \in Callers :
       InitReturnsOnValue(c) =>
         LET sp == SplitName(arg[c].name)
             rv == reg[sp[1]][sp[2]]
             d == arg[c].value
             got == m_optionsMap'[arg[c].name]
         IN /\ Mismatch(rv, d) =>
                 /\ ret'[c].rc = "OPT_WRONG_TYPE"
                 /\ got = d
                 /\ reg' = reg
            /\ rv.type = "REG_DWORD" /\ d.t = "VT_INT" =>
                 /\ ret'[c].rc = "OPT_OK"
                 /\ got.t = "VT_INT"
                 /\ DwordOfInt(got.v) = rv.data
            /\ rv.type = "REG_DWORD" /\ d.t = "VT_BOOL" =>
                 /\ ret'[c].rc = "OPT_OK"
                 /\ got = VBool(rv.data # <<0, 0, 0, 0>>)]_vars

\* C20's case: an InitOption with a String default has read a word from the
\* store and returned OPT_WRONG_TYPE with the default in the table.
C20_Witness ==
  /\ ret[Main].op = "InitOption"
  /\ ret[Main].rc = "OPT_WRONG_TYPE"
  /\ ret[Main].value.t = "VT_STRING"
  /\ ret[Main].read = "ERROR_SUCCESS"
  /\ ret[Main].got = ret[Main].value

\* C21: a Remove adds nothing to the store, the keys and the values of each
\* key after it being among those before it, also when the key path of the
\* name is missing; a Read of a name whose key path is missing creates no
\* key and no entry of the cache.
C21_RemoveOnlyRemoves ==
  [][\A c \in Callers :
       /\ pc[c] = "RemoveEnter" /\ pc'[c] = "idle" =>
            /\ DOMAIN reg' \subseteq DOMAIN reg
            /\ \A k \in DOMAIN reg' : DOMAIN reg'[k] \subseteq DOMAIN reg[k]
       /\ pc[c] = "Read" /\ pc'[c] = "idle"
            /\ SplitName(arg[c].name)[1] \notin DOMAIN reg =>
            /\ reg' = reg
            /\ m_hKeys' = m_hKeys]_vars

====
